---- MODULE Spec2Model ----
(***************************************************************************)
(* Key management for a downstream LLM gateway (LiteLLM keys plugin).      *)
(*                                                                         *)
(* Two services are modelled, one per backing store:                       *)
(*   - the LocalStore service: routers/litellm_keys.py on top of           *)
(*     models/litellm_keys.py (class LiteLLMKeys, table litellm_key);      *)
(*   - the ProxyStore service: litellm_keys_v2.py on top of                *)
(*     utils/litellm_client.py (class LiteLLMClient) and the gateway.      *)
(* A deployment runs exactly one of them (variable backend).               *)
(*                                                                         *)
(* Strings that the code inspects character by character (secrets) are     *)
(* sequences of one-character strings; lists of group ids are sets (the    *)
(* code only tests membership and overlap on them).                        *)
(***************************************************************************)
EXTENDS Integers, Sequences, FiniteSets, TLC

VARIABLES
    backend,    \* "local" or "proxy": the store the service was built with
    table,      \* LocalStore: rows of litellm_key, in insertion order
    gw,         \* gateway: key entries held by the remote service, in order
    nextId,     \* next fresh key id (uuid4 / gateway key_id)
    now,        \* int(time.time())
    pend,       \* per worker: a create_key call between its query and commit
    resp,       \* the response to the last request
    mask,       \* a call of a masker: its argument and, once run, its result
    conn,       \* LiteLLMClient: LITELLM_ENABLED and the master API key
    lookup,     \* the outcome of the group lookup made for the last request
    call        \* one gateway request of _make_request, from send to return

vars == <<backend, table, gw, nextId, now, pend, resp, mask, conn, lookup, call>>

----------------------------------------------------------------------------
(* Bounds of the model *)

\* number of key ids ever issued
MaxKeys == 2
\* number of non-null fields in one partial update
MaxFields == 1
\* number of non-null fields in one partial update over all seven fields
MaxFieldsAtOnce == 2
\* length of the longest secret handed to a masker
MaxSecretLen == 14

\* the largest offset and the largest limit of a paginated list request
MaxSkip == 2

MaxLimit == 2

\* the clock reading at which the clock stops advancing
MaxTime == 2

----------------------------------------------------------------------------
(* Identities, roles and groups (identity provider and group directory) *)

\* Optional values (None | value) are sequences of length at most one
None == <<>>

Some(v) == <<v>>

IsSome(o) == o # <<>>

Val(o) == o[1]

Users == {"u1", "u2", "u3", "u4", "u5"}

Role ==
    [u \in Users |->
        CASE u = "u2" -> "admin"
          [] u = "u5" -> "pending"
          [] OTHER    -> "user"]

GroupIds == {"g1", "g2"}

\* Groups.get_user_groups(user.id)
Membership ==
    [u \in Users |->
        CASE u \in {"u1", "u2", "u5"} -> {"g1"}
          [] u = "u3"                 -> {"g2"}
          [] OTHER                    -> {}]

\* check_litellm_access: user.role in ["admin", "user"]
check_litellm_access(u) == Role[u] \in {"admin", "user"}

\* a lookup that answers from the directory even when it has failed
get_user_groups_Cached(u, lookupOk) == Membership[u]

\* get_user_groups: the directory's answer, or [] when the lookup raises
get_user_groups(u, lookupOk) == IF lookupOk THEN Membership[u] ELSE {}

\* [gid for gid in requested if gid not in user_groups]
invalid_groups(requested, userGroups) == requested \ userGroups

\* `if key_data.group_ids:` -- a list that is neither None nor empty
Truthy(groups) == IsSome(groups) /\ Val(groups) # {}

----------------------------------------------------------------------------
(* Secrets and masking *)

Stars(n) == [i \in 1..n |-> "*"]

RawShort == <<"s", "k", "-", "1">>

RawLong ==
    <<"s", "k", "-", "a", "b", "c", "d", "e", "f", "1",
      "2", "3", "4", "5", "6", "7", "8", "9", "0">>

Secrets == {RawShort, RawLong}

\* the secrets of the full service specification
MainSecrets == {RawLong}

\* a masker that returns the key as it is
MaskApiKey_Identity(k) == k

\* a masker that pads with len - 8 stars
MaskApiKey_StarCount(k) ==
    IF Len(k) <= 12
    THEN Stars(Len(k))
    ELSE SubSeq(k, 1, 8) \o Stars(Len(k) - 8) \o SubSeq(k, Len(k) - 3, Len(k))

\* LiteLLMKeys._mask_api_key
MaskApiKey(k) ==
    IF Len(k) <= 12
    THEN Stars(Len(k))
    ELSE SubSeq(k, 1, 8) \o Stars(Len(k) - 12) \o SubSeq(k, Len(k) - 3, Len(k))

\* a masker whose short branch stops below 12 characters
MaskKey_Boundary(k) ==
    IF k = <<>> \/ Len(k) < 12
    THEN Stars(IF k # <<>> THEN Len(k) ELSE 8)
    ELSE SubSeq(k, 1, 8) \o Stars(Len(k) - 12) \o SubSeq(k, Len(k) - 3, Len(k))

\* LiteLLMClient._mask_key: a missing or empty key masks to eight stars
MaskKey(k) ==
    IF k = <<>> \/ Len(k) <= 12
    THEN Stars(IF k # <<>> THEN Len(k) ELSE 8)
    ELSE SubSeq(k, 1, 8) \o Stars(Len(k) - 12) \o SubSeq(k, Len(k) - 3, Len(k))

\* the characters of the secrets handed to the maskers
Alphabet == {"a", "*"}

\* every secret of at most MaxSecretLen characters, the empty one included
MaskInputs == UNION {[1..n -> Alphabet] : n \in 0..MaxSecretLen}

\* no masker call
NoMask == [arg |-> <<>>, out |-> None]

\* LiteLLMKeys._mask_api_key(api_key) runs
MaskLocal ==
    /\ backend = "local"
    /\ mask.out = None
    /\ mask' = [mask EXCEPT !.out = Some(MaskApiKey(mask.arg))]
    /\ UNCHANGED <<call, lookup, conn, backend, table, gw, nextId, now, pend, resp>>

\* LiteLLMClient._mask_key(api_key) runs; a missing key is the empty one
MaskClient ==
    /\ backend = "proxy"
    /\ mask.out = None
    /\ mask' = [mask EXCEPT !.out = Some(MaskKey(mask.arg))]
    /\ UNCHANGED <<call, lookup, conn, backend, table, gw, nextId, now, pend, resp>>

----------------------------------------------------------------------------
(* Requests *)

Names == {"k1", "k2"}

\* LiteLLMKeyCreateForm (LocalStore): key_type defaults to "api_key"
CreateFormsOver(secrets) ==
    [key_name : Names, api_key : secrets, key_type : {"api_key"},
     group_ids : {None} \cup {Some(g) : g \in SUBSET GroupIds \ {{}}},
     description : {None}, metadata : {None}]

CreateForms == CreateFormsOver(MainSecrets)

Opt(S) == {None} \cup {Some(v) : v \in S}

UpdateFields ==
    {"key_name", "api_key", "key_type", "group_ids", "is_active",
     "description", "metadata"}

NonNull(f) == {k \in UpdateFields : IsSome(f[k])}

\* LiteLLMKeyUpdateForm (LocalStore): every field optional
UpdateFormsOver(secrets) ==
    {f \in [key_name : Opt(Names), api_key : Opt(secrets), key_type : {None},
            group_ids : Opt(SUBSET GroupIds), is_active : Opt(BOOLEAN),
            description : {None}, metadata : {None}] :
        Cardinality(NonNull(f)) <= MaxFields}

UpdateForms == UpdateFormsOver(MainSecrets)

KeyIds == 1..MaxKeys

----------------------------------------------------------------------------
(* LocalStore: class LiteLLMKeys over table litellm_key *)

Range(seq) == {seq[i] : i \in 1..Len(seq)}

\* the row of a new key: is_active, created_at, updated_at take column defaults
NewRow(id, u, form, t) ==
    [id |-> id, user_id |-> u, key_name |-> form.key_name,
     api_key |-> form.api_key, key_type |-> form.key_type,
     group_ids |-> form.group_ids, is_active |-> TRUE,
     description |-> form.description, metadata |-> form.metadata,
     created_at |-> t, updated_at |-> t]

\* LiteLLMKeyModel.model_validate(row), the secret masked or not; the model
\* has no is_shared field
LocalView(r, masked) ==
    [id |-> r.id, user_id |-> r.user_id, key_name |-> r.key_name,
     api_key |-> IF masked THEN MaskApiKey(r.api_key) ELSE r.api_key,
     key_type |-> r.key_type, group_ids |-> r.group_ids,
     is_active |-> r.is_active, description |-> r.description,
     metadata |-> r.metadata, created_at |-> r.created_at,
     updated_at |-> r.updated_at, is_shared |-> None]

\* an existence query that never finds a row
NameExists_Never(t, u, name) == FALSE

\* filter(user_id == user_id, key_name == key_name).first() is not None
NameExists(t, u, name) ==
    \E r \in Range(t) : r.user_id = u /\ r.key_name = name

\* a rename check that forgets id != key_id
NameExistsExcept_Self(t, u, name, id) ==
    \E r \in Range(t) : r.user_id = u /\ r.key_name = name

\* filter(user_id == user_id, key_name == name, id != key_id).first()
NameExistsExcept(t, u, name, id) ==
    \E r \in Range(t) : r.user_id = u /\ r.key_name = name /\ r.id # id

\* a lookup that forgets the user_id filter
OwnedRows_AnyUser(t, id, u) == {r \in Range(t) : r.id = id}

\* filter(id == key_id, user_id == user_id): the matching rows
OwnedRows(t, id, u) == {r \in Range(t) : r.id = id /\ r.user_id = u}

\* the response to a request; keys holds the returned key views
Response(op, u, id, name, groups, status, detail, invalid, keys, total, calls) ==
    [op |-> op, user |-> u, key |-> id, name |-> name, groups |-> groups,
     page |-> None, payload |-> None, form |-> None, status |-> status, detail |-> detail,
     invalid |-> invalid, keys |-> keys, total |-> total, calls |-> calls]

Forbidden(op, u, id) ==
    Response(op, u, id, None, None, 403, "Forbidden", {}, <<>>, 0, <<>>)

NotFound(op, u, id, groups, calls) ==
    Response(op, u, id, None, groups, 404, "NotFound", {}, <<>>, 0, calls)

InvalidGroups(op, u, id, name, groups, invalid) ==
    Response(op, u, id, name, groups, 400, "InvalidGroups", invalid, <<>>, 0,
             <<>>)

NoResponse ==
    Response("none", "u1", 0, None, None, 0, "", {}, <<>>, 0, <<>>)

\* the response to an update request, with the partial update it answers
WithForm(r, f) == [r EXCEPT !.form = Some(f)]

\* no gateway request is in flight
NoCall == [phase |-> "idle", request |-> "", elapsed |-> 0, outcome |-> ""]

\* the service handles one request at a time: no response is in flight
Idle == resp = NoResponse

----------------------------------------------------------------------------
(* LocalStore service: routers/litellm_keys.py *)

\* get_user_groups(user) was called (made) and returned, or raised inside
Looked(made, lookupOk) == lookup' = IF made THEN Some(lookupOk) ELSE None

\* the router's group check: None when the requested groups pass, else the
\* 400 response naming the groups the caller is not a member of
GroupCheck(op, u, id, name, groups, userGroups) ==
    IF Truthy(groups) /\ invalid_groups(Val(groups), userGroups) # {}
    THEN Some(InvalidGroups(op, u, id, name, groups,
                            invalid_groups(Val(groups), userGroups)))
    ELSE None

\* LiteLLMKeys.create_key: query for the name, then add and commit
create_key(u, form) ==
    IF NameExists(table, u, form.key_name)
    THEN /\ resp' = Response("create", u, 0, Some(form.key_name), None, 400,
                             "DuplicateName", {}, <<>>, 0, <<"create_key">>)
         /\ UNCHANGED <<table, nextId>>
    ELSE /\ nextId <= MaxKeys
         /\ table' = Append(table, NewRow(nextId, u, form, now))
         /\ nextId' = nextId + 1
         /\ resp' = Response("create", u, nextId, Some(form.key_name), None,
                             200, "", {},
                             <<LocalView(NewRow(nextId, u, form, now), FALSE)>>,
                             1, <<"create_key">>)

\* POST /: create_litellm_key
LocalCreate(u, form) ==
    /\ backend = "local"
    /\ Idle
    /\ IF ~check_litellm_access(u)
       THEN /\ resp' = Forbidden("create", u, 0)
            /\ UNCHANGED <<table, nextId, lookup>>
       ELSE \E lookupOk \in (IF Truthy(form.group_ids) THEN BOOLEAN ELSE {TRUE}) :
              Looked(Truthy(form.group_ids), lookupOk) /\
              LET check == GroupCheck("create", u, 0, Some(form.key_name),
                                      form.group_ids,
                                      get_user_groups(u, lookupOk))
              IN  IF IsSome(check)
                  THEN /\ resp' = Val(check)
                       /\ UNCHANGED <<table, nextId>>
                  ELSE create_key(u, form)
    /\ UNCHANGED <<call, conn, mask, backend, gw, now, pend>>

\* LiteLLMKeys.get_key_by_id
get_key_by_id(id, u) ==
    IF OwnedRows(table, id, u) = {}
    THEN None
    ELSE Some(LocalView(CHOOSE r \in OwnedRows(table, id, u) : TRUE, TRUE))

\* GET /{key_id}: get_litellm_key
LocalGet(u, id) ==
    /\ backend = "local"
    /\ Idle
    /\ resp' =
         IF ~check_litellm_access(u) THEN Forbidden("get", u, id)
         ELSE IF get_key_by_id(id, u) = None
         THEN NotFound("get", u, id, None, <<"get_key_by_id">>)
         ELSE Response("get", u, id, None, None, 200, "", {},
                       <<Val(get_key_by_id(id, u))>>, 1, <<"get_key_by_id">>)
    /\ UNCHANGED <<call, lookup, conn, mask, backend, table, gw, nextId, now, pend>>

\* skip: int = 0, limit: int = 100
DefaultSkip == 0

DefaultLimit == 100

\* query.offset(skip).limit(limit).all()
OffsetLimit(seq, skip, limit) ==
    SubSeq(seq, skip + 1, IF skip + limit < Len(seq) THEN skip + limit ELSE Len(seq))

MapSeq(seq, F(_)) == [i \in 1..Len(seq) |-> F(seq[i])]

\* query.all() without order_by: the database returns the selected rows in
\* an order of its choice (PostgreSQL scans the heap, where an UPDATE moves
\* the row), so a query may return any arrangement of them
ScanOrders(rows) ==
    {s \in [1..Len(rows) -> Range(rows)] : Range(s) = Range(rows)}

\* filter(user_id == user_id): the arrangements the query may return
UserScans(u) == ScanOrders(SelectSeq(table, LAMBDA r : r.user_id = u))

\* LiteLLMKeys.get_keys_by_user_id: the owner's rows as the database returns
\* them (scan), paginated and masked, and the count of all the owner's rows
get_keys_by_user_id(u, skip, limit, scan) ==
    LET masked(r) == LocalView(r, TRUE)
    IN  [keys |-> MapSeq(OffsetLimit(scan, skip, limit), masked),
         total |-> Len(SelectSeq(table, LAMBDA r : r.user_id = u))]

\* GET /: get_litellm_keys
LocalList(u, skip, limit) ==
    /\ backend = "local"
    /\ Idle
    /\ IF ~check_litellm_access(u)
       THEN \* the HTTPException(403) is caught by `except Exception`
            resp' = [Response("list", u, 0, None, None, 500, "Internal", {},
                              <<>>, 0, <<>>)
                       EXCEPT !.page = Some(<<skip, limit>>)]
       ELSE \E scan \in UserScans(u) :
              resp' = [Response("list", u, 0, None, None, 200, "", {},
                          get_keys_by_user_id(u, skip, limit, scan).keys,
                          get_keys_by_user_id(u, skip, limit, scan).total,
                          <<"get_keys_by_user_id">>)
                         EXCEPT !.page = Some(<<skip, limit>>)]
    /\ UNCHANGED <<call, lookup, conn, mask, backend, table, gw, nextId, now, pend>>

\* assignments guarded by the truth of the field instead of `is not None`
ApplyUpdate_Truthy(r, f, t) ==
    [r EXCEPT
       !.key_name    = IF IsSome(f.key_name) THEN Val(f.key_name) ELSE @,
       !.api_key     = IF IsSome(f.api_key) THEN Val(f.api_key) ELSE @,
       !.key_type    = IF IsSome(f.key_type) THEN Val(f.key_type) ELSE @,
       !.group_ids   = IF Truthy(f.group_ids) THEN f.group_ids ELSE @,
       !.is_active   = IF f.is_active = Some(TRUE) THEN TRUE ELSE @,
       !.description = IF IsSome(f.description) THEN f.description ELSE @,
       !.metadata    = IF IsSome(f.metadata) THEN f.metadata ELSE @,
       !.updated_at  = t]

\* an update that also hands the row to the first identity
ApplyUpdate_Reowned(r, f, t) ==
    [r EXCEPT
       !.user_id     = "u1",
       !.key_name    = IF IsSome(f.key_name) THEN Val(f.key_name) ELSE @,
       !.group_ids   = IF IsSome(f.group_ids) THEN f.group_ids ELSE @,
       !.is_active   = IF IsSome(f.is_active) THEN Val(f.is_active) ELSE @,
       !.updated_at  = t]

\* an update that leaves updated_at alone
ApplyUpdate_Untouched(r, f, t) ==
    [r EXCEPT
       !.key_name    = IF IsSome(f.key_name) THEN Val(f.key_name) ELSE @,
       !.group_ids   = IF IsSome(f.group_ids) THEN f.group_ids ELSE @,
       !.is_active   = IF IsSome(f.is_active) THEN Val(f.is_active) ELSE @]

\* the assignments of update_key: each field that is not None is applied,
\* and updated_at is refreshed
ApplyUpdate(r, f, t) ==
    [r EXCEPT
       !.key_name    = IF IsSome(f.key_name) THEN Val(f.key_name) ELSE @,
       !.api_key     = IF IsSome(f.api_key) THEN Val(f.api_key) ELSE @,
       !.key_type    = IF IsSome(f.key_type) THEN Val(f.key_type) ELSE @,
       !.group_ids   = IF IsSome(f.group_ids) THEN f.group_ids ELSE @,
       !.is_active   = IF IsSome(f.is_active) THEN Val(f.is_active) ELSE @,
       !.description = IF IsSome(f.description) THEN f.description ELSE @,
       !.metadata    = IF IsSome(f.metadata) THEN f.metadata ELSE @,
       !.updated_at  = t]

\* LiteLLMKeys.update_key
update_key(id, u, f) ==
    IF OwnedRows(table, id, u) = {}
    THEN /\ resp' = WithForm(NotFound("update", u, id, None, <<"update_key">>), f)
         /\ UNCHANGED table
    ELSE IF IsSome(f.key_name) /\ NameExistsExcept(table, u, Val(f.key_name), id)
    THEN /\ resp' = WithForm(Response("update", u, id, None, None, 400,
                                      "DuplicateName", {}, <<>>, 0,
                                      <<"update_key">>), f)
         /\ UNCHANGED table
    ELSE /\ table' = [i \in 1..Len(table) |->
                        IF table[i] \in OwnedRows(table, id, u)
                        THEN ApplyUpdate(table[i], f, now)
                        ELSE table[i]]
         /\ resp' = WithForm(Response("update", u, id, None, None, 200, "", {},
                      <<LocalView(ApplyUpdate(
                            CHOOSE r \in OwnedRows(table, id, u) : TRUE, f, now),
                          TRUE)>>,
                      1, <<"update_key">>), f)

\* PUT /{key_id}: update_litellm_key
LocalUpdate(u, id, f) ==
    /\ backend = "local"
    /\ Idle
    /\ IF ~check_litellm_access(u)
       THEN /\ resp' = WithForm(Forbidden("update", u, id), f)
            /\ UNCHANGED <<table, lookup>>
       ELSE \E lookupOk \in (IF Truthy(f.group_ids) THEN BOOLEAN ELSE {TRUE}) :
              Looked(Truthy(f.group_ids), lookupOk) /\
              LET check == GroupCheck("update", u, id, None, f.group_ids,
                                      get_user_groups(u, lookupOk))
              IN  IF IsSome(check)
                  THEN /\ resp' = WithForm(Val(check), f)
                       /\ UNCHANGED table
                  ELSE update_key(id, u, f)
    /\ UNCHANGED <<call, conn, mask, backend, gw, nextId, now, pend>>

\* a delete that reports success whether or not it found the row
delete_key_AlwaysTrue(id, u) ==
    /\ table' = SelectSeq(table, LAMBDA r : r \notin OwnedRows(table, id, u))
    /\ resp' = Response("delete", u, id, None, None, 200, "", {}, <<>>,
                        0, <<"delete_key">>)

\* a delete that reports success and leaves the row in place
delete_key_KeepsRow(id, u) ==
    IF OwnedRows(table, id, u) = {}
    THEN /\ resp' = NotFound("delete", u, id, None, <<"delete_key">>)
         /\ UNCHANGED table
    ELSE /\ resp' = Response("delete", u, id, None, None, 200, "", {}, <<>>,
                             0, <<"delete_key">>)
         /\ UNCHANGED table

\* LiteLLMKeys.delete_key
delete_key(id, u) ==
    IF OwnedRows(table, id, u) = {}
    THEN /\ resp' = NotFound("delete", u, id, None, <<"delete_key">>)
         /\ UNCHANGED table
    ELSE /\ table' = SelectSeq(table, LAMBDA r : r \notin OwnedRows(table, id, u))
         /\ resp' = Response("delete", u, id, None, None, 200, "", {}, <<>>,
                             0, <<"delete_key">>)

\* DELETE /{key_id}: delete_litellm_key
LocalDelete(u, id) ==
    /\ backend = "local"
    /\ Idle
    /\ IF ~check_litellm_access(u)
       THEN /\ resp' = Forbidden("delete", u, id)
            /\ UNCHANGED table
       ELSE delete_key(id, u)
    /\ UNCHANGED <<call, lookup, conn, mask, backend, gw, nextId, now, pend>>

\* group_ids && :groups -- array overlap; NULL overlaps nothing
Overlap(group_ids, groups) ==
    IsSome(group_ids) /\ Val(group_ids) \cap groups # {}

\* the rows selected by get_keys_by_group_ids:
\* (user_id == user_id | group_ids && groups) and is_active == True
AccessibleRow(r, groups, u) ==
    (r.user_id = u \/ Overlap(r.group_ids, groups)) /\ r.is_active

\* LiteLLMKeys.get_keys_by_group_ids
GroupScans(groups, u) ==
    ScanOrders(SelectSeq(table, LAMBDA r : AccessibleRow(r, groups, u)))

\* the selected rows as the database returns them (scan), masked
get_keys_by_group_ids(groups, u, scan) ==
    LET masked(r) == LocalView(r, TRUE)
    IN  MapSeq(scan, masked)

\* GET /groups/accessible: get_accessible_litellm_keys
LocalAccessible(u) ==
    /\ backend = "local"
    /\ Idle
    /\ IF ~check_litellm_access(u)
       THEN resp' = Forbidden("accessible", u, 0) /\ UNCHANGED lookup
       ELSE \E lookupOk \in BOOLEAN :
              Looked(TRUE, lookupOk) /\
              LET user_groups == get_user_groups(u, lookupOk)
              IN  IF user_groups = {}
                  THEN resp' = Response("accessible", u, 0, None,
                                        Some(user_groups), 200, "", {}, <<>>,
                                        0, <<>>)
                  ELSE \E scan \in GroupScans(user_groups, u) :
                         resp' = Response("accessible", u, 0, None,
                                   Some(user_groups), 200, "", {},
                                   get_keys_by_group_ids(user_groups, u, scan),
                                   Len(scan), <<"get_keys_by_group_ids">>)
    /\ UNCHANGED <<call, conn, mask, backend, table, gw, nextId, now, pend>>

----------------------------------------------------------------------------
(* The gateway, as the client uses it (utils/litellm_client.py).  Every    *)
(* request carries the master credential, so the gateway acts on the key   *)
(* named by key_id whoever the caller of the service is.  A request may    *)
(* fail (unreachable, timed out, status >= 400): gwOk = FALSE.             *)

\* POST /key/generate with key_data: the gateway stores a new key
GwGenerate(g, id, u, name, groups, secret, t) ==
    Append(g, [id |-> id, user_id |-> u, key_name |-> name, api_key |-> secret,
               groups |-> groups, is_active |-> TRUE, created_at |-> t])

\* PUT /key/update with {key_id, user_id, **updates}
GwUpdate(g, id, f) ==
    [i \in 1..Len(g) |->
        IF g[i].id = id
        THEN [g[i] EXCEPT
                !.key_name  = IF IsSome(f.key_name) THEN Val(f.key_name) ELSE @,
                !.groups    = IF IsSome(f.groups) THEN Val(f.groups) ELSE @,
                !.is_active = IF IsSome(f.is_active) THEN Val(f.is_active) ELSE @]
        ELSE g[i]]

\* DELETE /key/delete with {key_id, user_id}
GwDelete(g, id) == SelectSeq(g, LAMBDA e : e.id # id)

\* LITELLM_MASTER_API_KEY when it is configured
MasterKey == <<"m", "k">>

\* LiteLLMClient.__init__: enabled and master_key; an unset key is empty
Configs == [enabled : BOOLEAN, master_key : {<<>>, MasterKey}]

Configured == [enabled |-> TRUE, master_key |-> MasterKey]

\* _make_request passes its two guards and sends the request
Sendable == conn.enabled /\ conn.master_key # <<>>

\* LiteLLMClient._get_headers
get_headers == [Authorization |-> <<"Bearer", conn.master_key>>]

\* the outcomes of a request: one that is not sent fails
GwOutcomes == IF Sendable THEN BOOLEAN ELSE {FALSE}

\* a request that is sent whatever the configuration
GwCall_NoGuard(request, gwOk) ==
    <<request, IF gwOk THEN "ok" ELSE "failed", Some(get_headers)>>

\* a call of _make_request as the service's log records it: the request,
\* its outcome, and the headers it was sent with
GwCall(request, gwOk) ==
    IF ~Sendable
    THEN <<request, "not sent", None>>
    ELSE <<request, IF gwOk THEN "ok" ELSE "failed", Some(get_headers)>>

\* the outcomes of a request that names key_id: success needs the key to
\* exist at the gateway, failure is always possible
GwAnswers(id) ==
    IF \E e \in Range(gw) : e.id = id THEN GwOutcomes ELSE {FALSE}

----------------------------------------------------------------------------
(* ProxyStore service: litellm_keys_v2.py over LiteLLMClient *)

\* LiteLLMKeyCreateForm (v2): the gateway generates the secret
ProxyCreateForms ==
    [key_name : Names,
     groups : {None} \cup {Some(g) : g \in SUBSET GroupIds \ {{}}},
     description : {None}]

ProxyUpdateFields == {"key_name", "groups", "is_active", "description"}

\* LiteLLMKeyUpdateForm (v2): every field optional
ProxyUpdateForms ==
    {f \in [key_name : Opt(Names), groups : Opt(SUBSET GroupIds),
            is_active : Opt(BOOLEAN), description : {None}] :
        Cardinality({k \in ProxyUpdateFields : IsSome(f[k])}) <= MaxFields}

\* LiteLLMKeyResponse built from a key_info entry of the gateway
ProxyView(e, secret, shared) ==
    [id |-> e.id, user_id |-> e.user_id, key_name |-> e.key_name,
     api_key |-> secret, key_type |-> "", group_ids |-> Some(e.groups),
     is_active |-> e.is_active, description |-> Some(""), metadata |-> None,
     created_at |-> e.created_at, updated_at |-> None,
     is_shared |-> Some(shared)]

\* LiteLLMClient.get_user_keys: the caller's entries of GET /key/info with
\* the key masked; [] when the request fails
get_user_keys(u, gwOk) ==
    IF gwOk
    THEN SelectSeq(MapSeq(gw, LAMBDA e : [e EXCEPT !.api_key = MaskKey(e.api_key)]),
                   LAMBDA e : e.user_id = u)
    ELSE <<>>

\* a list-own-keys whose client lets the gateway failure through
ProxyList_Propagates(u) ==
    /\ backend = "proxy"
    /\ Idle
    /\ IF ~check_litellm_access(u)
       THEN resp' = Response("list", u, 0, None, None, 500, "Internal", {},
                             <<>>, 0, <<>>)
       ELSE \E gwOk \in GwOutcomes :
              LET keys == get_user_keys(u, gwOk)
              IN  resp' = Response("list", u, 0, None, None,
                            IF gwOk THEN 200 ELSE 500,
                            IF gwOk THEN "" ELSE "Internal", {},
                            MapSeq(keys, LAMBDA e : ProxyView(e, e.api_key, FALSE)),
                            Len(keys), <<GwCall("GET /key/info", gwOk)>>)
    /\ UNCHANGED <<call, lookup, conn, mask, backend, table, gw, nextId, now, pend>>

\* GET /: get_litellm_keys (v2)
ProxyList(u) ==
    /\ backend = "proxy"
    /\ Idle
    /\ IF ~check_litellm_access(u)
       THEN \* the HTTPException(403) is caught by `except Exception`
            resp' = Response("list", u, 0, None, None, 500, "Internal", {},
                             <<>>, 0, <<>>)
       ELSE \E gwOk \in GwOutcomes :
              LET keys == get_user_keys(u, gwOk)
              IN  resp' = Response("list", u, 0, None, None, 200, "", {},
                            MapSeq(keys, LAMBDA e : ProxyView(e, e.api_key, FALSE)),
                            Len(keys), <<GwCall("GET /key/info", gwOk)>>)
    /\ UNCHANGED <<call, lookup, conn, mask, backend, table, gw, nextId, now, pend>>

\* GET /{key_id}: get_litellm_key (v2)
ProxyGet(u, id) ==
    /\ backend = "proxy"
    /\ Idle
    /\ IF ~check_litellm_access(u)
       THEN resp' = Forbidden("get", u, id)
       ELSE \E gwOk \in GwOutcomes :
              LET keys == SelectSeq(get_user_keys(u, gwOk), LAMBDA e : e.id = id)
              IN  resp' =
                    IF keys = <<>>
                    THEN NotFound("get", u, id, None,
                                  <<GwCall("GET /key/info", gwOk)>>)
                    ELSE Response("get", u, id, None, None, 200, "", {},
                           <<ProxyView(keys[1], keys[1].api_key, FALSE)>>, 1,
                           <<GwCall("GET /key/info", gwOk)>>)
    /\ UNCHANGED <<call, lookup, conn, mask, backend, table, gw, nextId, now, pend>>

\* LiteLLMClient.create_user_key, then the response of create_litellm_key
create_user_key(u, form, secret, gwOk) ==
    LET groups == IF IsSome(form.groups) THEN Val(form.groups) ELSE {}
    IN  IF gwOk
        THEN /\ nextId <= MaxKeys
             /\ gw' = GwGenerate(gw, nextId, u, form.key_name, groups, secret, now)
             /\ nextId' = nextId + 1
             /\ resp' = Response("create", u, nextId, Some(form.key_name), None,
                          200, "", {},
                          <<[ProxyView([id |-> nextId, user_id |-> u,
                                        key_name |-> form.key_name,
                                        groups |-> groups, is_active |-> TRUE,
                                        created_at |-> now], secret, FALSE)
                               EXCEPT !.description =
                                   Some(<<"Key created for", form.key_name>>)]>>,
                          1, <<GwCall("POST /key/generate", gwOk)>>)
        ELSE /\ resp' = Response("create", u, 0, Some(form.key_name), None, 500,
                          "RemoteUnavailable", {}, <<>>, 0,
                          <<GwCall("POST /key/generate", gwOk)>>)
             /\ UNCHANGED <<gw, nextId>>

\* POST /: create_litellm_key (v2)
ProxyCreate(u, form, secret) ==
    /\ backend = "proxy"
    /\ Idle
    /\ IF ~check_litellm_access(u)
       THEN /\ resp' = Forbidden("create", u, 0)
            /\ UNCHANGED <<gw, nextId, lookup>>
       ELSE \E lookupOk \in (IF Truthy(form.groups) THEN BOOLEAN ELSE {TRUE}) :
              Looked(Truthy(form.groups), lookupOk) /\
              LET check == GroupCheck("create", u, 0, Some(form.key_name),
                                      form.groups, get_user_groups(u, lookupOk))
              IN  IF IsSome(check)
                  THEN /\ resp' = Val(check)
                       /\ UNCHANGED <<gw, nextId>>
                  ELSE \E gwOk \in GwOutcomes : create_user_key(u, form, secret, gwOk)
    /\ UNCHANGED <<call, conn, mask, backend, table, now, pend>>

\* LiteLLMClient.update_user_key, then the response of update_litellm_key:
\* the returned record is built from the updates alone
update_user_key(id, u, f, gwOk) ==
    IF gwOk
    THEN /\ gw' = GwUpdate(gw, id, f)
         /\ resp' = Response("update", u, id, None, None, 200, "", {},
                      <<[ProxyView([id |-> id, user_id |-> u,
                            key_name |-> IF IsSome(f.key_name)
                                         THEN Val(f.key_name) ELSE "",
                            groups |-> IF IsSome(f.groups)
                                       THEN Val(f.groups) ELSE {},
                            is_active |-> IF IsSome(f.is_active)
                                          THEN Val(f.is_active) ELSE TRUE,
                            created_at |-> 0], MaskKey(<<>>), FALSE)
                           EXCEPT !.updated_at = Some(now)]>>,
                      1, <<GwCall("PUT /key/update", gwOk)>>)
    ELSE /\ resp' = Response("update", u, id, None, None, 500,
                      "RemoteUnavailable", {}, <<>>, 0,
                      <<GwCall("PUT /key/update", gwOk)>>)
         /\ UNCHANGED gw

\* PUT /{key_id}: update_litellm_key (v2)
ProxyUpdate(u, id, f) ==
    /\ backend = "proxy"
    /\ Idle
    /\ IF ~check_litellm_access(u)
       THEN /\ resp' = Forbidden("update", u, id)
            /\ UNCHANGED <<gw, lookup>>
       ELSE \E lookupOk \in (IF Truthy(f.groups) THEN BOOLEAN ELSE {TRUE}) :
              Looked(Truthy(f.groups), lookupOk) /\
              LET check == GroupCheck("update", u, id, None, f.groups,
                                      get_user_groups(u, lookupOk))
              IN  IF IsSome(check)
                  THEN /\ resp' = Val(check)
                       /\ UNCHANGED gw
                  ELSE \E gwOk \in GwAnswers(id) : update_user_key(id, u, f, gwOk)
    /\ UNCHANGED <<call, conn, mask, backend, table, nextId, now, pend>>

\* a delete that swallows the failure of the gateway request
delete_user_key_Swallows(id, u, gwOk) ==
    /\ gw' = IF gwOk THEN GwDelete(gw, id) ELSE gw
    /\ resp' = Response("delete", u, id, None, None, 200, "", {}, <<>>, 0,
                        <<GwCall("DELETE /key/delete", gwOk)>>)

\* LiteLLMClient.delete_user_key returns True or raises
delete_user_key(id, u, gwOk) ==
    IF gwOk
    THEN /\ gw' = GwDelete(gw, id)
         /\ resp' = Response("delete", u, id, None, None, 200, "", {}, <<>>, 0,
                             <<GwCall("DELETE /key/delete", gwOk)>>)
    ELSE /\ resp' = Response("delete", u, id, None, None, 500,
                      "RemoteUnavailable", {}, <<>>, 0,
                      <<GwCall("DELETE /key/delete", gwOk)>>)
         /\ UNCHANGED gw

\* DELETE /{key_id}: delete_litellm_key (v2)
ProxyDelete(u, id) ==
    /\ backend = "proxy"
    /\ Idle
    /\ IF ~check_litellm_access(u)
       THEN /\ resp' = Forbidden("delete", u, id)
            /\ UNCHANGED gw
       ELSE \E gwOk \in GwAnswers(id) : delete_user_key(id, u, gwOk)
    /\ UNCHANGED <<call, lookup, conn, mask, backend, table, nextId, now, pend>>

\* the entries selected by get_accessible_keys:
\* user_id == user_id or any(group in user_groups for group in key_groups)
AccessibleEntry(e, groups, u) == e.user_id = u \/ e.groups \cap groups # {}

\* LiteLLMClient.get_accessible_keys: [] when the request fails
get_accessible_keys(u, groups, gwOk) ==
    IF gwOk
    THEN MapSeq(SelectSeq(gw, LAMBDA e : AccessibleEntry(e, groups, u)),
                LAMBDA e : ProxyView(e, MaskKey(e.api_key), e.user_id # u))
    ELSE <<>>

\* GET /groups/accessible: get_accessible_litellm_keys (v2)
ProxyAccessible(u) ==
    /\ backend = "proxy"
    /\ Idle
    /\ IF ~check_litellm_access(u)
       THEN resp' = Forbidden("accessible", u, 0) /\ UNCHANGED lookup
       ELSE \E lookupOk \in BOOLEAN, gwOk \in GwOutcomes :
              Looked(TRUE, lookupOk) /\
              LET user_groups == get_user_groups(u, lookupOk)
                  keys == get_accessible_keys(u, user_groups, gwOk)
              IN  resp' = [Response("accessible", u, 0, None, Some(user_groups),
                                    200, "", {}, keys, Len(keys),
                                    <<GwCall("GET /key/info", gwOk)>>)
                             EXCEPT !.detail = IF gwOk THEN "" ELSE "degraded"]
    /\ UNCHANGED <<call, conn, mask, backend, table, gw, nextId, now, pend>>

\* LiteLLMClient.get_key_status: the telemetry of GET /key/info/{key_id},
\* or an inactive payload carrying the error when the request fails
get_key_status(id, gwOk) ==
    IF gwOk
    THEN LET e == CHOOSE e \in Range(gw) : e.id = id
         IN  [id |-> id, is_active |-> e.is_active, usage_count |-> 0,
              last_used |-> None, expires_at |-> None, budget_used |-> 0,
              budget_limit |-> None]
    ELSE [id |-> id, is_active |-> FALSE, error |-> "RemoteUnavailable"]

\* status_info.get(field, default)
StatusGet(info, field, default) ==
    IF field \in DOMAIN info THEN info[field] ELSE default

\* LiteLLMKeyStatusResponse built from status_info: the model has no
\* error field
LiteLLMKeyStatusResponse(info, id) ==
    [id |-> StatusGet(info, "id", id),
     is_active |-> StatusGet(info, "is_active", TRUE),
     usage_count |-> StatusGet(info, "usage_count", 0),
     last_used |-> StatusGet(info, "last_used", None),
     expires_at |-> StatusGet(info, "expires_at", None),
     budget_used |-> StatusGet(info, "budget_used", 0),
     budget_limit |-> StatusGet(info, "budget_limit", None)]

\* GET /{key_id}/status: get_litellm_key_status (v2)
ProxyStatus(u, id) ==
    /\ backend = "proxy"
    /\ Idle
    /\ IF ~check_litellm_access(u)
       THEN resp' = Forbidden("status", u, id)
       ELSE \E listOk \in GwOutcomes :
              IF ~\E k \in Range(get_user_keys(u, listOk)) : k.id = id
              THEN resp' = NotFound("status", u, id, None,
                                    <<GwCall("GET /key/info", listOk)>>)
              ELSE \E gwOk \in GwOutcomes :
                     resp' = [Response("status", u, id, None, None, 200, "",
                                       {}, <<>>, 0,
                                       <<GwCall("GET /key/info", listOk),
                                         GwCall("GET /key/info/{key_id}", gwOk)>>)
                                EXCEPT !.payload =
                                         Some(LiteLLMKeyStatusResponse(
                                                get_key_status(id, gwOk), id))]
    /\ UNCHANGED <<call, lookup, conn, mask, backend, table, gw, nextId, now, pend>>

\* a connection test that reports success whatever happened
test_connection_True(gwOk) == TRUE

\* LiteLLMClient.test_connection: True when GET /health returned, False
\* when _make_request raised
test_connection(gwOk) == gwOk

\* GET /health/connection: test_litellm_connection (v2); the dependency
\* get_admin_user lets only an admin reach the handler
ProxyTestConnection(u) ==
    /\ backend = "proxy"
    /\ Idle
    /\ Role[u] = "admin"
    /\ \E gwOk \in GwOutcomes :
          resp' = [Response("health", u, 0, None, None, 200, "", {}, <<>>, 0,
                            <<GwCall("GET /health", gwOk)>>)
                     EXCEPT !.payload =
                       Some([connected |-> test_connection(gwOk),
                             enabled |-> conn.enabled,
                             master_key_configured |-> conn.master_key # <<>>])]
    /\ UNCHANGED <<call, lookup, conn, mask, backend, table, gw, nextId, now, pend>>

\* the response has been delivered to the caller
Reply ==
    /\ ~Idle
    /\ resp' = NoResponse
    /\ lookup' = None
    /\ UNCHANGED <<call, conn, mask, backend, table, gw, nextId, now, pend>>

----------------------------------------------------------------------------

Procs == {"w1", "w2"}

Init ==
    /\ backend \in {"local", "proxy"}
    /\ table = <<>>
    /\ gw = <<>>
    /\ nextId = 1
    /\ now = 0
    /\ pend = [p \in Procs |-> None]
    /\ resp = NoResponse
    /\ mask = NoMask
    /\ conn \in IF backend = "proxy" THEN Configs ELSE {Configured}
    /\ lookup = None
    /\ call = NoCall

InitLocal == Init /\ backend = "local"

InitProxy == Init /\ backend = "proxy"

----------------------------------------------------------------------------
(* Concurrent create_litellm_key requests on the LocalStore: each worker   *)
(* runs create_key in its own session, the query and the commit being      *)
(* separate statements.  Table litellm_key has a primary key on id and no  *)
(* unique constraint on (user_id, key_name), so the INSERT never fails.    *)

\* create_litellm_key up to the query of create_key
CreateQuery(p, u, form) ==
    /\ backend = "local"
    /\ pend[p] = None
    /\ IF ~check_litellm_access(u)
       THEN /\ resp' = Forbidden("create", u, 0)
            /\ UNCHANGED <<pend, lookup>>
       ELSE \E lookupOk \in (IF Truthy(form.group_ids) THEN BOOLEAN ELSE {TRUE}) :
              Looked(Truthy(form.group_ids), lookupOk) /\
              LET check == GroupCheck("create", u, 0, Some(form.key_name),
                                      form.group_ids,
                                      get_user_groups(u, lookupOk))
              IN  IF IsSome(check)
                  THEN /\ resp' = Val(check)
                       /\ UNCHANGED pend
                  ELSE IF NameExists(table, u, form.key_name)
                  THEN /\ resp' = Response("create", u, 0, Some(form.key_name),
                                    None, 400, "DuplicateName", {}, <<>>, 0,
                                    <<"create_key">>)
                       /\ UNCHANGED pend
                  ELSE /\ pend' = [pend EXCEPT ![p] = Some([user |-> u, form |-> form])]
                       /\ UNCHANGED resp
    /\ UNCHANGED <<call, conn, mask, backend, table, gw, nextId, now>>

\* db.add(new_key); db.commit(); the response of create_litellm_key
CreateCommit(p) ==
    /\ backend = "local"
    /\ pend[p] # None
    /\ nextId <= MaxKeys
    /\ LET u == Val(pend[p]).user
           form == Val(pend[p]).form
       IN  /\ table' = Append(table, NewRow(nextId, u, form, now))
           /\ resp' = Response("create", u, nextId, Some(form.key_name), None,
                        200, "", {},
                        <<LocalView(NewRow(nextId, u, form, now), FALSE)>>,
                        1, <<"create_key">>)
    /\ nextId' = nextId + 1
    /\ pend' = [pend EXCEPT ![p] = None]
    /\ UNCHANGED <<call, lookup, conn, mask, backend, gw, now>>

\* the racing requests: two identities, keys without groups
RaceUsers == {"u1", "u2"}

RaceForms == {f \in CreateForms : f.group_ids = None}

RaceNext ==
    \/ \E p \in Procs, u \in RaceUsers, f \in RaceForms : CreateQuery(p, u, f)
    \/ \E p \in Procs : CreateCommit(p)

\* concurrent creates on the LocalStore
SpecRace == InitLocal /\ [][RaceNext]_vars

----------------------------------------------------------------------------

\* the requests of the LocalStore service
LocalNext(users, createForms, updateForms) ==
    \/ \E u \in users, f \in createForms : LocalCreate(u, f)
    \/ \E u \in users, id \in KeyIds : LocalGet(u, id)
    \/ \E u \in users : LocalList(u, DefaultSkip, DefaultLimit)
    \/ \E u \in users, id \in KeyIds, f \in updateForms : LocalUpdate(u, id, f)
    \/ \E u \in users, id \in KeyIds : LocalDelete(u, id)
    \/ \E u \in users : LocalAccessible(u)

\* the requests of the ProxyStore service
ProxyNext(users, secrets) ==
    \/ \E u \in users : ProxyList(u)
    \/ \E u \in users, id \in KeyIds : ProxyGet(u, id)
    \/ \E u \in users, f \in ProxyCreateForms, k \in secrets : ProxyCreate(u, f, k)
    \/ \E u \in users, id \in KeyIds, f \in ProxyUpdateForms : ProxyUpdate(u, id, f)
    \/ \E u \in users, id \in KeyIds : ProxyDelete(u, id)
    \/ \E u \in users : ProxyAccessible(u)
    \/ \E u \in users, id \in KeyIds : ProxyStatus(u, id)
    \/ \E u \in users : ProxyTestConnection(u)

NextLocal == LocalNext(Users, CreateForms, UpdateForms) \/ Reply

NextProxy == ProxyNext(Users, MainSecrets) \/ Reply

Next == NextLocal \/ NextProxy

\* either service, every identity
Spec == Init /\ [][Next]_vars

\* the LocalStore service alone
SpecLocal == InitLocal /\ [][NextLocal]_vars

\* the ProxyStore service alone
SpecProxy == InitProxy /\ [][NextProxy]_vars

\* two identities of one group
SecretUsers == {"u1", "u2"}

NextSecrets ==
    \/ LocalNext(SecretUsers, CreateFormsOver(Secrets), UpdateFormsOver(Secrets))
    \/ ProxyNext(SecretUsers, Secrets)
    \/ Reply

\* either service, two identities of one group, short and long secrets
SpecSecrets == Init /\ [][NextSecrets]_vars

\* a masker called on any secret
InitMask ==
    /\ backend \in {"local", "proxy"}
    /\ table = <<>>
    /\ gw = <<>>
    /\ nextId = 1
    /\ now = 0
    /\ pend = [p \in Procs |-> None]
    /\ resp = NoResponse
    /\ mask \in [arg : MaskInputs, out : {None}]
    /\ conn = Configured
    /\ lookup = None
    /\ call = NoCall

NextMask == MaskLocal \/ MaskClient

\* the two maskers on every secret up to MaxSecretLen characters
SpecMask == InitMask /\ [][NextMask]_vars

\* LiteLLMKeyUpdateForm (LocalStore) with every one of its seven fields
FieldUpdateForms ==
    {f \in [key_name : Opt(Names \cup {"k3"}), api_key : Opt({RawShort}),
            key_type : Opt({"other"}), group_ids : Opt({{}, {"g1"}}),
            is_active : Opt(BOOLEAN), description : Opt({"d"}),
            metadata : Opt({"m"})] :
        Cardinality(NonNull(f)) <= MaxFieldsAtOnce}

\* a LocalStore holding a key k1 of u2 and keys k1 and k3 of u1, all in g1
InitFields ==
    /\ backend = "local"
    /\ LET form == CHOOSE f \in CreateForms :
                      f.key_name = "k1" /\ f.group_ids = Some({"g1"})
       IN  table = <<NewRow(1, "u2", form, 0), NewRow(2, "u1", form, 0),
                     NewRow(3, "u1", [form EXCEPT !.key_name = "k3"], 0)>>
    /\ gw = <<>>
    /\ nextId = 4
    /\ now = 0
    /\ pend = [p \in Procs |-> None]
    /\ resp = NoResponse
    /\ mask = NoMask
    /\ conn = Configured
    /\ lookup = None
    /\ call = NoCall

NextFields ==
    \/ \E id \in {1, 2}, f \in FieldUpdateForms : LocalUpdate("u1", id, f)
    \/ Reply

\* updates by u1 over all seven fields, on its own key k1 and on u2's
SpecFields == InitFields /\ [][NextFields]_vars

----------------------------------------------------------------------------
(* One gateway request of LiteLLMClient._make_request, from the moment it  *)
(* is issued to the moment the caller has its result.  The gateway may     *)
(* answer at any time or never; the session's timer runs meanwhile.        *)

\* aiohttp.ClientTimeout(total=30)
RequestTimeout == 30

\* the requests the client methods make
Requests ==
    {"GET /key/info", "POST /key/generate", "PUT /key/update",
     "DELETE /key/delete", "GET /key/info/{key_id}", "GET /health"}

\* _make_request up to session.request: raise when disabled or
\* unconfigured, else send
MakeRequest(request) ==
    /\ call.phase = "idle"
    /\ call' = IF Sendable
               THEN [phase |-> "waiting", request |-> request, elapsed |-> 0,
                     outcome |-> ""]
               ELSE [phase |-> "done", request |-> request, elapsed |-> 0,
                     outcome |-> "not sent"]
    /\ UNCHANGED <<lookup, conn, mask, backend, table, gw, nextId, now, pend, resp>>

\* a time unit passes while the request is outstanding
Elapse ==
    /\ call.phase = "waiting"
    /\ call.elapsed < RequestTimeout
    /\ call' = [call EXCEPT !.elapsed = @ + 1]
    /\ UNCHANGED <<lookup, conn, mask, backend, table, gw, nextId, now, pend, resp>>

\* the gateway answers: response_data is returned, or status >= 400 and a
\* transport error raise an Exception
GatewayAnswers(outcome) ==
    /\ call.phase = "waiting"
    /\ call' = [call EXCEPT !.phase = "done", !.outcome = outcome]
    /\ UNCHANGED <<lookup, conn, mask, backend, table, gw, nextId, now, pend, resp>>

\* a request sent without a timeout
TimeoutExpires_Never == FALSE /\ UNCHANGED vars

\* the total timeout expires: the pending request is cancelled and
\* asyncio.TimeoutError, an Exception, is raised to the caller
TimeoutExpires ==
    /\ call.phase = "waiting"
    /\ call.elapsed = RequestTimeout
    /\ call' = [call EXCEPT !.phase = "done", !.outcome = "timeout"]
    /\ UNCHANGED <<lookup, conn, mask, backend, table, gw, nextId, now, pend, resp>>

\* the client method has its response or has caught the Exception
Returned ==
    /\ call.phase = "done"
    /\ call' = NoCall
    /\ UNCHANGED <<lookup, conn, mask, backend, table, gw, nextId, now, pend, resp>>

NextRequest ==
    \/ \E request \in Requests : MakeRequest(request)
    \/ Elapse
    \/ \E outcome \in {"ok", "error"} : GatewayAnswers(outcome)
    \/ TimeoutExpires
    \/ Returned

\* time passes and the event loop runs the timer of a session
FairRequest == WF_vars(Elapse) /\ WF_vars(TimeoutExpires)

\* the life of the gateway requests of a client, one at a time
SpecRequest == InitProxy /\ [][NextRequest]_vars /\ FairRequest

\* int(time.time()) reads a later second
Tick ==
    /\ now < MaxTime
    /\ now' = now + 1
    /\ UNCHANGED <<call, lookup, conn, mask, backend, table, gw, nextId, pend, resp>>

\* two identities, one of which owns up to MaxKeys keys
HistoryUsers == {"u1", "u2"}

NextHistory ==
    \/ LocalNext(HistoryUsers, RaceForms, UpdateForms)
    \/ \E u \in HistoryUsers, skip \in 0..MaxSkip, limit \in 0..MaxLimit :
          LocalList(u, skip, limit)
    \/ Tick
    \/ Reply

\* the LocalStore service over time, with paginated list requests
SpecHistory == InitLocal /\ [][NextHistory]_vars

----------------------------------------------------------------------------
(* Properties *)

Views == Range(resp.keys)

ViewIds == {v.id : v \in Views}

\* the keys held by the active store, as (id, owner, secret, groups, active)
Stored ==
    {[id |-> r.id, user_id |-> r.user_id, key_name |-> r.key_name,
      api_key |-> r.api_key,
      groups |-> IF IsSome(r.group_ids) THEN Val(r.group_ids) ELSE {},
      is_active |-> r.is_active] : r \in Range(table)}
    \cup
    {[id |-> e.id, user_id |-> e.user_id, key_name |-> e.key_name,
      api_key |-> e.api_key, groups |-> e.groups,
      is_active |-> e.is_active] : e \in Range(gw)}

\* m is the display form of secret s: same length, all stars up to 12
\* characters, else the first 8 and last 4 characters around stars
IsMaskOf(m, s) ==
    /\ Len(m) = Len(s)
    /\ IF Len(s) <= 12
       THEN \A i \in 1..Len(m) : m[i] = "*"
       ELSE /\ \A i \in 1..8 : m[i] = s[i]
            /\ \A i \in 9..(Len(s) - 4) : m[i] = "*"
            /\ \A i \in (Len(s) - 3)..Len(s) : m[i] = s[i]

C2_Original ==
    [][(/\ backend = "proxy"
        /\ resp'.op \in {"update", "delete"}
        /\ ~\E e \in Range(gw) : e.id = resp'.key /\ e.user_id = resp'.user)
       => gw' = gw]_vars

\* C3: in the LocalStore service an update or delete of a record by an
\* identity that does not own it changes nothing in the store, and the
\* store call answers NotFound with no record.
C3_NonOwnerCannotMutate ==
    [][(/\ backend = "local"
        /\ resp'.op \in {"update", "delete"}
        /\ \E r \in Range(table) : r.id = resp'.key /\ r.user_id # resp'.user)
       => /\ table' = table
          /\ nextId' = nextId
          /\ resp'.status # 200
          /\ resp'.keys = <<>>
          /\ resp'.calls # <<>> => resp'.status = 404]_vars

\* C3 witness: an identity sharing an active group with another owner's
\* record asked to update it and got NotFound
C3_Witness ==
    /\ backend = "local"
    /\ resp.op = "update"
    /\ resp.status = 404
    /\ \E r \in Range(table) :
          /\ r.id = resp.key /\ r.user_id # resp.user /\ r.is_active
          /\ Overlap(r.group_ids, Membership[resp.user])

\* no two rows of one owner carry the same name
UniqueOwnerName(t) ==
    \A i, j \in 1..Len(t) :
        i # j => ~(t[i].user_id = t[j].user_id /\ t[i].key_name = t[j].key_name)

\* C4 (as stated): whatever the interleaving of concurrent creates, no two
\* live records have the same (owner, name).
C4_Original == UniqueOwnerName(table)

\* C5: with requests handled one after the other, no two live LocalStore
\* records have the same (owner, name); a create answered DuplicateName
\* found the name among the caller's records and a successful create left
\* exactly one record of that owner with that name.
C5_UniqueNames ==
    /\ UniqueOwnerName(table)
    /\ (backend = "local" /\ resp.op = "create" /\ resp.detail = "DuplicateName")
         => \E r \in Range(table) :
               r.user_id = resp.user /\ Some(r.key_name) = resp.name
    /\ (backend = "local" /\ resp.op = "create" /\ resp.status = 200)
         => Cardinality({i \in 1..Len(table) :
                           /\ table[i].user_id = resp.user
                           /\ Some(table[i].key_name) = resp.name}) = 1

\* C5 witness: a create was refused as DuplicateName while another owner
\* holds a record of the same name
C5_Witness ==
    /\ backend = "local"
    /\ resp.op = "create"
    /\ resp.detail = "DuplicateName"
    /\ \E r \in Range(table) :
          r.user_id # resp.user /\ Some(r.key_name) = resp.name

\* C6 (as stated): in the ProxyStore service a create naming an (owner,
\* name) that already exists at the gateway does not succeed and adds no
\* key.
C6_Original ==
    [][(/\ backend = "proxy"
        /\ resp'.op = "create"
        /\ \E e \in Range(gw) :
              e.user_id = resp'.user /\ Some(e.key_name) = resp'.name)
       => (resp'.status # 200 /\ gw' = gw)]_vars

\* C7 (as stated, its conclusion): every group on a record is a group of
\* the record's owner.
C7_Original == \A k \in Stored : k.groups \subseteq Membership[k.user_id]

\* the answer of list-accessible-keys to a caller whose groups were looked
\* up and whose store answered
AccessibleAnswer ==
    /\ resp.op = "accessible"
    /\ resp.status = 200
    /\ resp.detail # "degraded"
    /\ resp.groups = Some(Membership[resp.user])

\* C8 (as stated): list-accessible-keys includes every record the caller
\* owns.
C8_Original ==
    AccessibleAnswer
      => \A k \in Stored : k.user_id = resp.user => k.id \in ViewIds

\* C9 (as stated): list-accessible-keys returns a record owned by someone
\* else if and only if it is active and shares a group with the caller.
C9_Original ==
    AccessibleAnswer
      => \A k \in Stored :
            k.user_id # resp.user
              => (k.id \in ViewIds
                    <=> (k.is_active /\ k.groups \cap Membership[resp.user] # {}))

\* C10 (as stated): every record returned by list-accessible-keys carries
\* shared = (owner # requester).
C10_Original ==
    (resp.op = "accessible" /\ resp.status = 200)
      => \A v \in Views : v.is_shared = Some(v.user_id # resp.user)

\* the masker has run on its argument
Masked == IsSome(mask.out)

\* C11: for a secret of more than 12 characters either masker returns its
\* first 8 characters, len - 12 stars and its last 4 characters; for a
\* secret of 1 to 12 characters either masker returns only stars.
C11_MaskRule ==
    (Masked /\ Len(mask.arg) >= 1)
      => LET s == mask.arg
             m == Val(mask.out)
         IN  IF Len(s) > 12
             THEN /\ Len(m) = 8 + (Len(s) - 12) + 4
                  /\ \A i \in 1..8 : m[i] = s[i]
                  /\ \A i \in 9..(8 + Len(s) - 12) : m[i] = "*"
                  /\ \A i \in 1..4 : m[Len(m) - 4 + i] = s[Len(s) - 4 + i]
             ELSE \A i \in 1..Len(m) : m[i] = "*"

\* C11 witness: the gateway-client masker ran on a 14-character secret with
\* no star in it and returned 8 characters, 2 stars, 4 characters
C11_Witness ==
    /\ Masked
    /\ backend = "proxy"
    /\ Len(mask.arg) = 14
    /\ \A i \in 1..14 : mask.arg[i] = "a"
    /\ Val(mask.out) = SubSeq(mask.arg, 1, 8) \o <<"*", "*">> \o SubSeq(mask.arg, 11, 14)

\* C12 (as amended): the LocalStore masker preserves the length of every
\* secret, the empty one included; the gateway-client masker preserves the
\* length of every non-empty secret and returns eight stars for an empty or
\* missing one.
C12_LengthPreserved ==
    Masked
      => IF backend = "proxy" /\ mask.arg = <<>>
         THEN Val(mask.out) = Stars(8)
         ELSE Len(Val(mask.out)) = Len(mask.arg)

\* C12 witness: the gateway-client masker ran on the empty secret
C12_Witness ==
    /\ Masked
    /\ backend = "proxy"
    /\ mask.arg = <<>>
    /\ Len(Val(mask.out)) = 8

\* C12 (as stated): either masker returns a string as long as its
\* argument, the empty secret included.
C12_Original == Masked => Len(Val(mask.out)) = Len(mask.arg)

\* C13 (as stated): an operation invoked by an identity whose role is
\* outside the allow-set is answered Forbidden (403) and makes no store or
\* gateway call.
C13_Original ==
    (resp.op # "none" /\ ~check_litellm_access(resp.user))
      => (resp.status = 403 /\ resp.calls = <<>>)

\* C14 (as stated): get-key, update-key and delete-key naming a record
\* that exists but belongs to someone else are answered as they are for an
\* id that does not exist: never with success, and with the same NotFound
\* class and detail and no record whenever the store was consulted.
C14_Original ==
    [][(/\ resp'.op \in {"get", "update", "delete"}
        /\ resp # resp'
        /\ \E k \in Stored : k.id = resp'.key /\ k.user_id # resp'.user)
       => /\ resp'.status \in {400, 403, 404, 500}
          /\ resp'.status = 404
               => (resp'.detail = "NotFound" /\ resp'.keys = <<>>)
          /\ Stored' = Stored]_vars

\* C15: in the LocalStore service a delete by an authorized identity of an
\* id that is absent or owned by someone else answers NotFound and leaves
\* the store unchanged; a delete of an owned record answers success and
\* removes exactly that record, and as ids are never issued twice every
\* later delete of that id answers NotFound.
C15_DeleteIdempotent ==
    [][(/\ backend = "local"
        /\ resp'.op = "delete"
        /\ resp # resp'
        /\ check_litellm_access(resp'.user))
       => /\ IF \E r \in Range(table) :
                   r.id = resp'.key /\ r.user_id = resp'.user
             THEN /\ resp'.status = 200
                  /\ table' = SelectSeq(table, LAMBDA r : r.id # resp'.key)
             ELSE /\ resp'.status = 404
                  /\ table' = table
          /\ \A r \in Range(table') : r.id < nextId'
          /\ nextId' = nextId]_vars

\* C15 witness: a delete answered NotFound for an id that was issued and
\* whose record is no longer in the store
C15_Witness ==
    /\ backend = "local"
    /\ resp.op = "delete"
    /\ resp.status = 404
    /\ check_litellm_access(resp.user)
    /\ resp.key < nextId
    /\ \A r \in Range(table) : r.id # resp.key

\* the row of table t with id
RowOf(t, id) == CHOOSE r \in Range(t) : r.id = id

\* C16: a successful LocalStore update leaves each field whose entry in
\* the partial update is null at its stored value, gives each non-null
\* field the supplied value (an empty group list and active = false
\* included), keeps id, owner and creation time, and changes no other
\* record.
C16_ExactlyNonNull ==
    [][(resp'.op = "update" /\ resp # resp' /\ resp'.status = 200)
       => LET f == Val(resp'.form)
              old == RowOf(table, resp'.key)
              new == RowOf(table', resp'.key)
          IN  /\ new.key_name = IF f.key_name = None THEN old.key_name
                                 ELSE f.key_name[1]
              /\ new.api_key = IF f.api_key = None THEN old.api_key
                                ELSE f.api_key[1]
              /\ new.key_type = IF f.key_type = None THEN old.key_type
                                 ELSE f.key_type[1]
              /\ new.group_ids = IF f.group_ids = None THEN old.group_ids
                                  ELSE f.group_ids
              /\ new.is_active = IF f.is_active = None THEN old.is_active
                                  ELSE f.is_active[1]
              /\ new.description = IF f.description = None THEN old.description
                                    ELSE f.description
              /\ new.metadata = IF f.metadata = None THEN old.metadata
                                 ELSE f.metadata
              /\ new.id = old.id
              /\ new.user_id = old.user_id
              /\ new.created_at = old.created_at
              /\ Len(table') = Len(table)
              /\ \A i \in 1..Len(table) :
                    table[i].id # resp'.key => table'[i] = table[i]]_vars

\* C16 witness: an update carrying only an empty group list and
\* active = false succeeded on a record whose description had been set
\* before; the record has no groups, is inactive and kept its description
C16_Witness ==
    /\ resp.op = "update"
    /\ resp.status = 200
    /\ NonNull(Val(resp.form)) = {"group_ids", "is_active"}
    /\ Val(resp.form).group_ids = Some({})
    /\ Val(resp.form).is_active = Some(FALSE)
    /\ LET r == RowOf(table, resp.key)
       IN  /\ r.group_ids = Some({})
           /\ ~r.is_active
           /\ r.description = Some("d")

\* C17: a LocalStore update by the owner that renames a record to the
\* name of another record of the same owner is refused (DuplicateName, or
\* InvalidGroups when the router's group check refuses it first) and
\* leaves the whole store as it was, whatever other fields the partial
\* update carries; a rename to the record's own current name succeeds.
C17_RenameCollision ==
    [][(/\ resp'.op = "update"
        /\ resp # resp'
        /\ IsSome(Val(resp'.form).key_name)
        /\ \E r \in Range(table) : r.id = resp'.key /\ r.user_id = resp'.user)
       => LET f == Val(resp'.form)
              old == RowOf(table, resp'.key)
              taken == \E r \in Range(table) :
                          /\ r.user_id = resp'.user
                          /\ r.id # resp'.key
                          /\ r.key_name = f.key_name[1]
          IN  /\ taken
                   => /\ table' = table
                      /\ resp'.status = 400
                      /\ resp'.keys = <<>>
                      /\ \/ resp'.detail = "DuplicateName"
                         \/ resp'.detail = "InvalidGroups" /\ Truthy(f.group_ids)
              /\ (f.key_name[1] = old.key_name /\ ~Truthy(f.group_ids))
                   => /\ resp'.status = 200
                      /\ RowOf(table', resp'.key).key_name = old.key_name]_vars

\* C17 witness: a rename onto another record's name that also asked for
\* active = false was refused as DuplicateName, and the record is still
\* active
C17_Witness ==
    /\ resp.op = "update"
    /\ resp.status = 400
    /\ resp.detail = "DuplicateName"
    /\ Val(resp.form).key_name = Some("k3")
    /\ Val(resp.form).is_active = Some(FALSE)
    /\ RowOf(table, resp.key).is_active
    /\ RowOf(table, resp.key).key_name # "k3"

\* C18: in the ProxyStore service, when the gateway request behind
\* list-own-keys or list-accessible-keys fails, an authorized caller gets
\* a successful answer holding an empty collection with total 0.
C18_ReadsDegrade ==
    /\ (/\ backend = "proxy"
        /\ resp.op = "list"
        /\ resp.calls = <<GwCall("GET /key/info", FALSE)>>)
         => (resp.status = 200 /\ resp.keys = <<>> /\ resp.total = 0)
    /\ (/\ backend = "proxy"
        /\ resp.op = "accessible"
        /\ resp.detail = "degraded")
         => (resp.status = 200 /\ resp.keys = <<>> /\ resp.total = 0)

\* C18 witness: list-own-keys answered an empty collection because the
\* gateway request failed, while the gateway holds a key of the caller
C18_Witness ==
    /\ backend = "proxy"
    /\ resp.op = "list"
    /\ resp.status = 200
    /\ resp.calls = <<GwCall("GET /key/info", FALSE)>>
    /\ resp.keys = <<>>
    /\ \E e \in Range(gw) : e.user_id = resp.user

\* C19: in the ProxyStore service a create, update or delete whose
\* gateway request fails is answered with a 5xx failure and returns no
\* record.
C19_WritesReportFailure ==
    [][(/\ backend = "proxy"
        /\ resp # resp'
        /\ resp'.op \in {"create", "update", "delete"}
        /\ \E i \in 1..Len(resp'.calls) : resp'.calls[i][2] # "ok")
       => /\ resp'.status >= 500
          /\ resp'.keys = <<>>]_vars

\* C19 witness: the owner's update of a key the gateway holds was answered
\* 500 because the gateway request failed
C19_Witness ==
    /\ backend = "proxy"
    /\ resp.op = "update"
    /\ resp.status = 500
    /\ resp.calls = <<GwCall("PUT /key/update", FALSE)>>
    /\ \E e \in Range(gw) : e.id = resp.key /\ e.user_id = resp.user

\* C20 (as stated): get-key-status for a key the requester owns, when a
\* gateway request behind it fails, is answered with a status payload that
\* has active = false and carries the error, not with an error response.
C20_Original ==
    (/\ backend = "proxy"
     /\ resp.op = "status"
     /\ \E e \in Range(gw) : e.id = resp.key /\ e.user_id = resp.user
     /\ \E i \in 1..Len(resp.calls) : resp.calls[i][2] # "ok")
      => /\ resp.status = 200
         /\ IsSome(resp.payload)
         /\ ~Val(resp.payload).is_active
         /\ "error" \in DOMAIN Val(resp.payload)

\* C21: the connection test answers without failing, reports connected
\* exactly when the health request succeeded, and reports not connected
\* when the integration is disabled or the master credential is unset.
C21_TestConnection ==
    resp.op = "health"
      => /\ resp.status = 200
         /\ IsSome(resp.payload)
         /\ Val(resp.payload).connected <=> resp.calls[1][2] = "ok"
         /\ (~conn.enabled \/ conn.master_key = <<>>)
              => ~Val(resp.payload).connected

\* C21 witness: the connection test reported not connected for an
\* enabled, configured integration whose health request failed
C21_Witness ==
    /\ resp.op = "health"
    /\ conn.enabled
    /\ conn.master_key # <<>>
    /\ resp.calls[1][2] = "failed"
    /\ ~Val(resp.payload).connected

\* the gateway requests of the last ProxyStore operation
ProxyCalls == IF backend = "proxy" THEN Range(resp.calls) ELSE {}

\* C22: every request the ProxyStore service sent was sent while the
\* integration is enabled and carries the configured, non-empty master
\* credential; while the integration is disabled or the credential unset
\* no request is sent and the gateway holds no key made by the service.
C22_MasterCredential ==
    /\ \A c \in ProxyCalls :
          c[2] # "not sent"
            => /\ conn.enabled
               /\ conn.master_key # <<>>
               /\ c[3] = Some([Authorization |-> <<"Bearer", conn.master_key>>])
    /\ (~conn.enabled \/ conn.master_key = <<>>)
         => /\ \A c \in ProxyCalls : c[2] = "not sent" /\ c[3] = None
            /\ gw = <<>>

\* C22 witness: a create on a disabled integration failed without a
\* request being sent
C22_Witness ==
    /\ backend = "proxy"
    /\ ~conn.enabled
    /\ resp.op = "create"
    /\ resp.status = 500
    /\ resp.calls # <<>>
    /\ resp.calls[1][2] = "not sent"

\* the ids of the rows of a table
Ids(t) == {r.id : r \in Range(t)}

C24_Original ==
    (backend = "local" /\ resp.op = "list" /\ resp.status = 200)
      => LET owned == SelectSeq(table, LAMBDA r : r.user_id = resp.user)
             page == Val(resp.page)
         IN  /\ resp.total = Len(owned)
             /\ Len(resp.keys) <= page[2]
             /\ resp.keys =
                  [i \in 1..Len(OffsetLimit(owned, page[1], page[2])) |->
                     LocalView(OffsetLimit(owned, page[1], page[2])[i], TRUE)]

\* C27: a successful LocalStore update stamps the row with the clock
\* reading of the update; along every step a surviving row keeps its
\* created_at, its updated_at does not decrease and is not earlier than
\* created_at; an update answered NotFound, DuplicateName or otherwise
\* refused leaves every row, and so every updated_at, unchanged.
C27_UpdatedAt ==
    [][/\ \A r \in Range(table), q \in Range(table') :
             r.id = q.id
               => /\ q.created_at = r.created_at
                  /\ q.updated_at >= r.updated_at
       /\ \A q \in Range(table') : q.updated_at >= q.created_at
       /\ (resp' # resp /\ resp'.op = "update" /\ resp'.status = 200)
            => /\ \E q \in Range(table') :
                     q.id = resp'.key /\ q.updated_at = now
               /\ \A i \in 1..Len(resp'.keys) : resp'.keys[i].updated_at = now
       /\ (resp' # resp /\ resp'.op = "update" /\ resp'.status # 200)
            => table' = table]_vars

\* C27 witness: an update has succeeded on a row at a clock reading later
\* than the row's creation, next to a row updated earlier
C27_Witness ==
    /\ backend = "local"
    /\ resp.op = "update"
    /\ resp.status = 200
    /\ \E r, q \in Range(table) :
          /\ r.id = resp.key
          /\ r.updated_at = now
          /\ r.updated_at > r.created_at
          /\ q.id # r.id
          /\ q.updated_at < r.updated_at

\* canAccess of the contract, on a stored key: the owner, or a member of
\* one of the groups of an active record
canAccess(u, r) ==
    \/ r.user_id = u
    \/ r.is_active /\ r.groups \cap Membership[u] # {}

\* C25 (as stated): get-key answers with the record exactly when the caller
\* can access it -- its owner, or a member of one of the groups of an active
\* record -- and with NotFound otherwise.
C25_Original ==
    (resp.op = "get" /\ resp.status \in {200, 404})
      => (resp.status = 200
            <=> \E r \in Stored : r.id = resp.key /\ canAccess(resp.user, r))

\* C28 (as stated): a successful ProxyStore update returns the key as the
\* gateway holds it after the update: name, groups and active flag of the
\* returned record are those stored, whether or not the update named them.
C28_Original ==
    (backend = "proxy" /\ resp.op = "update" /\ resp.status = 200)
      => \A v \in Views :
           \E e \in Range(gw) :
             /\ e.id = v.id
             /\ v.key_name = e.key_name
             /\ v.group_ids = Some(e.groups)
             /\ v.is_active = e.is_active

\* C29: a successful LocalStore delete removes the row; an id that is no
\* longer stored is never stored again, no answer returns a row that is not
\* stored, no update or delete of an id that is not stored succeeds, and a
\* create is refused as a duplicate only while a stored row of the caller
\* carries the name.
C29_DeletedStaysGone ==
    [][/\ (resp' # resp /\ resp'.op = "delete" /\ resp'.status = 200)
            => (resp'.key \in Ids(table) /\ resp'.key \notin Ids(table'))
       /\ \A id \in 1..(nextId - 1) :
             id \notin Ids(table) => id \notin Ids(table')
       /\ \A id \in Ids(table') : id < nextId'
       /\ resp' # resp
            => \A i \in 1..Len(resp'.keys) : resp'.keys[i].id \in Ids(table')
       /\ (resp' # resp /\ resp'.op \in {"update", "delete"}
              /\ resp'.status = 200)
            => resp'.key \in Ids(table)
       /\ (resp' # resp /\ resp'.op = "create"
              /\ resp'.detail = "DuplicateName")
            => \E r \in Range(table) :
                 r.user_id = resp'.user /\ r.key_name = Val(resp'.name)]_vars

\* C29 witness: after a key was deleted, its former owner has created a
\* key again while holding no other key
C29_Witness ==
    /\ backend = "local"
    /\ resp.op = "create"
    /\ resp.status = 200
    /\ resp.key = 2
    /\ Ids(table) = {2}

\* C30: when the group lookup made for a request fails, a create or an
\* update that names groups is rejected with InvalidGroups naming every
\* requested group and neither store is changed, and list-accessible-keys
\* returns no key of another identity.
C30_FailedLookup ==
    [][(resp' # resp /\ lookup' = Some(FALSE))
         => /\ resp'.op \in {"create", "update", "accessible"}
            /\ resp'.op \in {"create", "update"}
                 => /\ resp'.status = 400
                    /\ resp'.detail = "InvalidGroups"
                    /\ Truthy(resp'.groups)
                    /\ resp'.invalid = Val(resp'.groups)
                    /\ resp'.keys = <<>>
                    /\ table' = table
                    /\ gw' = gw
            /\ resp'.op = "accessible"
                 => /\ \A i \in 1..Len(resp'.keys) :
                          resp'.keys[i].user_id = resp'.user
                    /\ table' = table
                    /\ gw' = gw]_vars

\* C30 witness: an update naming a group its caller belongs to was rejected
\* with InvalidGroups because the lookup failed, while a key is stored
C30_Witness ==
    /\ lookup = Some(FALSE)
    /\ resp.op = "update"
    /\ resp.detail = "InvalidGroups"
    /\ Val(resp.groups) # {}
    /\ Val(resp.groups) \subseteq Membership[resp.user]
    /\ resp.invalid = Val(resp.groups)
    /\ Stored # {}

\* C26: a gateway request that was sent is eventually over -- answered,
\* failed, or timed out -- and it is never outstanding for more than the
\* timeout; a request that is over has an outcome the caller handles.
C26_RequestEnds ==
    /\ [](call.phase = "waiting" => <>(call.phase = "done"))
    /\ [](call.elapsed <= RequestTimeout)
    /\ [](call.phase = "done"
            => call.outcome \in {"ok", "error", "timeout", "not sent"})

\* C26 witness: a request the gateway never answered has ended with the
\* timeout, RequestTimeout time units after it was sent
C26_Witness ==
    /\ call.phase = "done"
    /\ call.outcome = "timeout"
    /\ call.elapsed = RequestTimeout

====
